---- MODULE Spec2Model ----
(***************************************************************************)
(* CabVision (src/main.py): one run of the dashboard script over an        *)
(* uploaded taxi-trip CSV.  The script is a straight line of sections:     *)
(* ingestion and time features, three sidebar filters, the preview, the    *)
(* metric cards, the charts, the two maps and the closing charts.  Each    *)
(* section is one action; pc is the script's position.                     *)
(*                                                                         *)
(* A table is a sequence of rows; a row is a record with one field per     *)
(* column of the CSV plus "index", the pandas row label that boolean       *)
(* indexing keeps.  Numbers are integers: distances in miles, money in     *)
(* dollars, timestamps in hours since 2015-01-01 00:00, coordinates in     *)
(* degrees.  Rounded metrics are held in hundredths.                       *)
(***************************************************************************)
EXTENDS Integers, Sequences, FiniteSets, TLC

VARIABLES uploaded_file, df, prev, passenger_filter, min_dist, max_dist, trip_dist,
          vendor_filter, preview, cards, rendered, pickup_map, dropoff_map, map_calls,
          pc, error

vars == <<uploaded_file, df, prev, passenger_filter, min_dist, max_dist, trip_dist,
          vendor_filter, preview, cards, rendered, pickup_map, dropoff_map, map_calls,
          pc, error>>

----------------------------------------------------------------------------
(* Missing values.  pandas holds a missing number as NaN and a missing     *)
(* timestamp as NaT; both fail every ordering comparison and are skipped   *)
(* by sum/mean/min/max.  NaN is a value outside every column's domain.     *)
NaN == -999999

NaT == NaN

\* a missing cell of a text column (day_name / month_name of NaT)
NoName == "NaN"

IsNull(v) == v = NaN

----------------------------------------------------------------------------
(* Columns *)
date_cols == {"tpep_pickup_datetime", "tpep_dropoff_datetime"}

TimeFeatures == {"pickup_hour", "pickup_day", "pickup_month"}

SchemaColumns ==
    date_cols \cup {"passenger_count", "trip_distance", "VendorID", "fare_amount",
                    "tip_amount", "pickup_latitude", "pickup_longitude",
                    "dropoff_latitude", "dropoff_longitude"}

Has(col, d) == col \in d.columns

----------------------------------------------------------------------------
(* pd.to_datetime(..., errors="coerce").  A raw timestamp cell is the text *)
(* "2015-MM-DD HH:00:00" held as its three fields; text that names no      *)
(* instant (month 13, day 31 of a 30-day month, hour 24, an empty cell)    *)
(* is coerced to NaT.                                                      *)
DaysInMonth == <<31, 28, 31, 30, 31, 30, 31, 31, 30, 31, 30, 31>>

MonthNames == <<"January", "February", "March", "April", "May", "June", "July",
                "August", "September", "October", "November", "December">>

\* Monday first, as pandas' dayofweek
DayNames == <<"Monday", "Tuesday", "Wednesday", "Thursday", "Friday", "Saturday",
              "Sunday">>

HoursPerDay == 24

\* 2015-01-01 was a Thursday: dayofweek 3
EpochWeekday == 3

ValidStamp(cell) ==
    /\ cell.month \in 1..12
    /\ cell.day \in 1..DaysInMonth[cell.month]
    /\ cell.hour \in 0..(HoursPerDay - 1)

RECURSIVE DaysBefore(_)
DaysBefore(month) ==
    IF month = 1 THEN 0 ELSE DaysBefore(month - 1) + DaysInMonth[month - 1]

\* mutant of to_datetime: text that names no instant is converted all the same
to_datetime_lenient(cell) ==
    (DaysBefore(((cell.month - 1) % 12) + 1) + cell.day - 1) * HoursPerDay + cell.hour

to_datetime(cell) ==
    IF ValidStamp(cell)
    THEN (DaysBefore(cell.month) + cell.day - 1) * HoursPerDay + cell.hour
    ELSE NaT

\* Series.dt.hour
dt_hour(ts) == IF IsNull(ts) THEN NaN ELSE ts % HoursPerDay

\* Series.dt.day_name()
dt_day_name(ts) ==
    IF IsNull(ts) THEN NoName
    ELSE DayNames[(((ts \div HoursPerDay) + EpochWeekday) % 7) + 1]

\* Series.dt.month_name()
dt_month_name(ts) ==
    IF IsNull(ts) THEN NoName
    ELSE LET doy == ts \div HoursPerDay
             m == CHOOSE k \in 1..12 :
                     DaysBefore(k) <= doy /\ doy < DaysBefore(k) + DaysInMonth[k]
         IN MonthNames[m]

\* lines 23-26: the two timestamp columns, where present, are converted
ConvertDates(d) ==
    [columns |-> d.columns,
     rows |-> [i \in DOMAIN d.rows |->
                 [c \in DOMAIN d.rows[i] |->
                     IF c \in date_cols THEN to_datetime(d.rows[i][c])
                     ELSE d.rows[i][c]]]]

\* lines 29-32: three columns derived from the pickup timestamp
AddTimeFeatures(d) ==
    IF Has("tpep_pickup_datetime", d)
    THEN [columns |-> d.columns \cup TimeFeatures,
          rows |-> [i \in DOMAIN d.rows |->
                      LET r == d.rows[i]
                          ts == r.tpep_pickup_datetime
                      IN [c \in DOMAIN r \cup TimeFeatures |->
                            CASE c = "pickup_hour" -> dt_hour(ts)
                              [] c = "pickup_day" -> dt_day_name(ts)
                              [] c = "pickup_month" -> dt_month_name(ts)
                              [] OTHER -> r[c]]]]
    ELSE d

\* pd.read_csv: the file's header and rows
read_csv(file) == [columns |-> file.columns, rows |-> file.rows]

----------------------------------------------------------------------------
(* Series helpers *)
Min(a, b) == IF a <= b THEN a ELSE b

Range(seq) == {seq[i] : i \in DOMAIN seq}

\* the distinct values of rows lo..hi of a column, in order of first appearance
RECURSIVE UniqueRange(_, _, _, _)
UniqueRange(rows, col, lo, hi) ==
    IF lo > hi THEN <<>>
    ELSE IF lo = hi THEN <<rows[lo][col]>>
    ELSE LET mid == (lo + hi) \div 2
             a == UniqueRange(rows, col, lo, mid)
             b == UniqueRange(rows, col, mid + 1, hi)
         IN a \o SelectSeq(b, LAMBDA v : v \notin Range(a))

\* Series.unique(): the distinct values in order of first appearance, NaN
\* (once) included
unique(rows, col) == UniqueRange(rows, col, 1, Len(rows))

\* Series.dropna() / the non-null entries of a list of values
dropna(values) == SelectSeq(values, LAMBDA v : ~IsNull(v))

\* a < b on floats: False when either side is NaN
lt(a, b) == ~IsNull(a) /\ ~IsNull(b) /\ a < b

(* sorted(list), as CPython's list.sort does it.  The list is cut into     *)
(* runs: count_run takes the longest leading run (non-descending, or       *)
(* descending and then reversed) and binarysort extends a short            *)
(* one to minrun items; runs are merged in the order found_new_run and     *)
(* merge_force_collapse pick, by merge_lo or merge_hi, which switch to     *)
(* galloping after min_gallop wins in a row.  All of it asks only "x < y"; *)
(* every comparison with NaN is False, so with a NaN in the list the       *)
(* outcome depends on the order the items came in and need not be          *)
(* ascending.  Positions are counted from 0 as in the C code.              *)
(*                                                                         *)
(* A loop of the C code is a record s with a field loop that names it and  *)
(* a field done; step(s) is one pass through the loop's body and run(s)    *)
(* repeats it until done.  run works in stretches of 24 * 24 passes so     *)
(* that the depth of the evaluation stays small on long lists.             *)
RECURSIVE step(_)

RECURSIVE run_stretch(_, _)
run_stretch(s, k) == IF k = 0 \/ s.done THEN s ELSE run_stretch(step(s), k - 1)

RECURSIVE run_stretches(_, _)
run_stretches(s, k) ==
    IF k = 0 \/ s.done THEN s ELSE run_stretches(run_stretch(s, 24), k - 1)

RECURSIVE run(_)
run(s) == IF s.done THEN s ELSE run(run_stretches(s, 24))

(* list.sort differs between releases of CPython, in two places.  Up to   *)
(* CPython 3.10 the pending runs are merged as merge_collapse says, by     *)
(* their lengths ("collapse"); from CPython 3.11 as found_new_run says, by *)
(* their powers.  And count_run takes as a descending run only a strictly  *)
(* descending one, up to 3.10 and in 3.11 ("strict"); that of later        *)
(* releases looks for a non-descending run first, lets equal neighbours    *)
(* into a descending run, and goes on with the items that ascend after the *)
(* reversed run ("relaxed").  On a list without NaN all three end in the   *)
(* same order; with a NaN they need not.                                   *)
ListSortKinds == {"collapse", "strict", "relaxed"}

\* count_run's scan: item i (counted from 1) is looked at next
count_run_step(s) ==
    IF s.i <= Len(s.list) /\ lt(s.list[s.i], s.list[s.i - 1]) = s.descending
    THEN [s EXCEPT !.i = @ + 1]
    ELSE [s EXCEPT !.done = TRUE]

\* the length of the run the scan finds, taken up at item i
scan_run(list, i, descending) ==
    run([loop |-> "count_run", done |-> FALSE, list |-> list, i |-> i,
         descending |-> descending]).i - 1

\* REVERSE_LAST_NEQ: the last neq + 1 of the first n items are turned round
reverse_last_neq(list, n, neq) ==
    [i \in 1..Len(list) |->
        IF n - neq <= i /\ i <= n THEN list[2 * n - neq - i] ELSE list[i]]

\* the relaxed count_run's descending loop: the neq + 1 items before item i
\* are equal; such a stretch is turned round when the descent goes on
descending_step(s) ==
    IF s.i > Len(s.list) THEN [s EXCEPT !.done = TRUE]
    ELSE IF lt(s.list[s.i], s.list[s.i - 1])
    THEN [s EXCEPT !.list = IF s.neq = 0 THEN @ ELSE reverse_last_neq(@, s.i - 1, s.neq),
                   !.neq = 0, !.i = @ + 1]
    ELSE IF lt(s.list[s.i - 1], s.list[s.i]) THEN [s EXCEPT !.done = TRUE]
    ELSE [s EXCEPT !.neq = @ + 1, !.i = @ + 1]

\* after the descending loop, which looked at s.i - 1 items: the last equal
\* stretch and then the whole run are turned round, and the run takes in the
\* items that ascend after it
descending_run(s) ==
    LET list == reverse_last_neq(reverse_last_neq(s.list, s.i - 1, s.neq),
                                 s.i - 1, s.i - 2)
    IN [n |-> scan_run(list, s.i, FALSE), list |-> list]

\* the relaxed count_run after its first scan found n non-descending items:
\* they are the run if they are all there is or if they rise somewhere;
\* otherwise they are equal, or one, and start a descending run
relaxed_run(list, n) ==
    IF n = Len(list) \/ (n > 1 /\ lt(list[1], list[n])) THEN [n |-> n, list |-> list]
    ELSE descending_run(run([loop |-> "descending", done |-> FALSE,
                             list |-> reverse_last_neq(list, n, n - 1),
                             i |-> n + 2, neq |-> 0]))

\* count_run, and the reversal of a descending run (which the strict
\* count_run leaves to list.sort): the length n of the leading run and the
\* list with that run made ascending
count_run(list, kind) ==
    IF Len(list) = 1 THEN [n |-> 1, list |-> list]
    ELSE IF kind # "relaxed"
    THEN LET descending == lt(list[2], list[1])
             n == scan_run(list, 3, descending)
         IN [n |-> n,
             list |-> IF descending THEN reverse_last_neq(list, n, n - 1) ELSE list]
    ELSE relaxed_run(list, scan_run(list, 2, FALSE))

\* the number of items of the sorted prefix s[1..r] that stay left of pivot
RECURSIVE bisect(_, _, _, _)
bisect(s, pivot, l, r) ==
    IF l >= r THEN l
    ELSE LET p == l + ((r - l) \div 2)
         IN IF lt(pivot, s[p + 1]) THEN bisect(s, pivot, l, p)
            ELSE bisect(s, pivot, p + 1, r)

\* s[1..start-1] is sorted; the later items are inserted one by one
RECURSIVE binarysort(_, _)
binarysort(s, start) ==
    IF start > Len(s) THEN s
    ELSE LET pivot == s[start]
             l == bisect(s, pivot, 0, start - 1)
         IN binarysort(SubSeq(s, 1, l) \o <<pivot>> \o SubSeq(s, l + 1, start - 1)
                           \o SubSeq(s, start + 1, Len(s)),
                       start + 1)

MIN_GALLOP == 7

\* the test both gallops repeat: gallop_left looks for the first item not
\* below key (x < key), gallop_right for the first item above it (not key < x)
comes_before(side, x, key) == IF side = "left" THEN lt(x, key) ELSE ~lt(key, x)

RECURSIVE gallop_up(_, _, _, _, _, _, _)
gallop_up(side, key, a, hint, maxofs, lastofs, ofs) ==
    IF ofs < maxofs /\ comes_before(side, a[hint + ofs + 1], key)
    THEN gallop_up(side, key, a, hint, maxofs, ofs, 2 * ofs + 1)
    ELSE <<lastofs, ofs>>

RECURSIVE gallop_down(_, _, _, _, _, _, _)
gallop_down(side, key, a, hint, maxofs, lastofs, ofs) ==
    IF ofs < maxofs /\ ~comes_before(side, a[hint - ofs + 1], key)
    THEN gallop_down(side, key, a, hint, maxofs, ofs, 2 * ofs + 1)
    ELSE <<lastofs, ofs>>

RECURSIVE gallop_bisect(_, _, _, _, _)
gallop_bisect(side, key, a, lastofs, ofs) ==
    IF lastofs >= ofs THEN ofs
    ELSE LET m == lastofs + ((ofs - lastofs) \div 2)
         IN IF comes_before(side, a[m + 1], key) THEN gallop_bisect(side, key, a, m + 1, ofs)
            ELSE gallop_bisect(side, key, a, lastofs, m)

\* gallop_left / gallop_right(key, a, n, hint) with n = Len(a)
gallop(side, key, a, hint) ==
    IF comes_before(side, a[hint + 1], key)
    THEN LET g == gallop_up(side, key, a, hint, Len(a) - hint, 0, 1)
         IN gallop_bisect(side, key, a, g[1] + hint + 1,
                          Min(g[2], Len(a) - hint) + hint)
    ELSE LET g == gallop_down(side, key, a, hint, hint + 1, 0, 1)
         IN gallop_bisect(side, key, a, hint - Min(g[2], hint + 1) + 1, hint - g[1])

(* merge_lo(A, B) and merge_hi(A, B) as loops.  In merge_lo s.out is the   *)
(* merged front, and s.na items of A from position s.pa and s.nb items of  *)
(* B from position s.pb are still to come; in merge_hi s.out is the merged *)
(* back, and the first s.na items of A and the first s.nb items of B are   *)
(* still to come.  s.pairs tells whether the loop takes one item at a time *)
(* or gallops, s.acount and s.bcount count the wins in a row; at the end   *)
(* s.out is the merged list and s.ms the min_gallop left behind.           *)

\* the galloping loop starts a pass: min_gallop -= min_gallop > 1
gallop_begin(s) ==
    [s EXCEPT !.min_gallop = IF @ > 1 THEN @ - 1 ELSE @,
              !.ms = IF s.min_gallop > 1 THEN s.min_gallop - 1 ELSE s.min_gallop]

\* the galloping loop ends a pass: it goes on while either run won
\* MIN_GALLOP times or more, otherwise min_gallop is raised and the
\* one-pair-at-a-time loop takes over
gallop_end(s) ==
    IF s.acount >= MIN_GALLOP \/ s.bcount >= MIN_GALLOP THEN s
    ELSE [s EXCEPT !.pairs = TRUE, !.min_gallop = @ + 1, !.ms = s.min_gallop + 1,
                   !.acount = 0, !.bcount = 0]

\* merge_lo: the next k items of A (of B) go to the merged front
merge_lo_take_a(s, k) ==
    [s EXCEPT !.out = @ \o SubSeq(s.A, s.pa + 1, s.pa + k), !.pa = @ + k, !.na = @ - k]

merge_lo_take_b(s, k) ==
    [s EXCEPT !.out = @ \o SubSeq(s.B, s.pb + 1, s.pb + k), !.pb = @ + k, !.nb = @ - k]

merge_lo_succeed(s) ==
    [s EXCEPT !.done = TRUE,
              !.out = @ \o SubSeq(s.A, s.pa + 1, s.pa + s.na)
                        \o SubSeq(s.B, s.pb + 1, Len(s.B))]

merge_lo_copy_b(s) ==
    [s EXCEPT !.done = TRUE,
              !.out = @ \o SubSeq(s.B, s.pb + 1, Len(s.B)) \o <<s.A[s.pa + 1]>>]

\* after an item of B was taken
merge_lo_pairs_b(s) ==
    IF s.nb = 0 THEN merge_lo_succeed(s)
    ELSE IF s.bcount >= s.min_gallop THEN [s EXCEPT !.pairs = FALSE, !.min_gallop = @ + 1]
    ELSE s

\* after an item of A was taken
merge_lo_pairs_a(s) ==
    IF s.na = 1 THEN merge_lo_copy_b(s)
    ELSE IF s.acount >= s.min_gallop THEN [s EXCEPT !.pairs = FALSE, !.min_gallop = @ + 1]
    ELSE s

merge_lo_pairs(s) ==
    IF lt(s.B[s.pb + 1], s.A[s.pa + 1])
    THEN merge_lo_pairs_b(merge_lo_take_b([s EXCEPT !.bcount = @ + 1, !.acount = 0], 1))
    ELSE merge_lo_pairs_a(merge_lo_take_a([s EXCEPT !.acount = @ + 1, !.bcount = 0], 1))

\* after the gallop over B found k items, which are taken with one item of A
merge_lo_gallop_b(s, k) ==
    LET t == merge_lo_take_b([s EXCEPT !.bcount = k], k)
    IN IF k > 0 /\ t.nb = 0 THEN merge_lo_succeed(t)
       ELSE IF t.na = 2 THEN merge_lo_copy_b(merge_lo_take_a(t, 1))
       ELSE gallop_end(merge_lo_take_a(t, 1))

\* after the gallop over A found k items, which are taken with one item of B
merge_lo_gallop_a(s, k) ==
    LET t == merge_lo_take_a([s EXCEPT !.acount = k], k)
    IN IF k > 0 /\ t.na = 1 THEN merge_lo_copy_b(t)
       ELSE IF k > 0 /\ t.na = 0 THEN merge_lo_succeed(t)
       ELSE IF t.nb = 1 THEN merge_lo_succeed(merge_lo_take_b(t, 1))
       ELSE merge_lo_gallop_b(merge_lo_take_b(t, 1),
                              gallop("left", s.A[t.pa + 1],
                                     SubSeq(s.B, t.pb + 2, Len(s.B)), 0))

merge_lo_gallop(s) ==
    merge_lo_gallop_a(gallop_begin(s),
                      gallop("right", s.B[s.pb + 1],
                             SubSeq(s.A, s.pa + 1, s.pa + s.na), 0))

merge_lo(A, B, min_gallop) ==
    IF Len(B) = 1 THEN [out |-> B \o A, ms |-> min_gallop]
    ELSE IF Len(A) = 1 THEN [out |-> B \o A, ms |-> min_gallop]
    ELSE run([loop |-> "merge_lo", done |-> FALSE, pairs |-> TRUE, A |-> A, B |-> B,
              out |-> <<B[1]>>, pa |-> 0, na |-> Len(A), pb |-> 1, nb |-> Len(B) - 1,
              acount |-> 0, bcount |-> 0, min_gallop |-> min_gallop, ms |-> min_gallop])

\* merge_hi: the last k items of A (of B) still to come go to the merged back
merge_hi_take_a(s, k) ==
    [s EXCEPT !.out = SubSeq(s.A, s.na - k + 1, s.na) \o @, !.na = @ - k]

merge_hi_take_b(s, k) ==
    [s EXCEPT !.out = SubSeq(s.B, s.nb - k + 1, s.nb) \o @, !.nb = @ - k]

merge_hi_succeed(s) ==
    [s EXCEPT !.done = TRUE, !.out = SubSeq(s.A, 1, s.na) \o SubSeq(s.B, 1, s.nb) \o @]

merge_hi_copy_a(s) ==
    [s EXCEPT !.done = TRUE, !.out = <<s.B[1]>> \o SubSeq(s.A, 1, s.na) \o @]

merge_hi_pairs_a(s) ==
    IF s.na = 0 THEN merge_hi_succeed(s)
    ELSE IF s.acount >= s.min_gallop THEN [s EXCEPT !.pairs = FALSE, !.min_gallop = @ + 1]
    ELSE s

merge_hi_pairs_b(s) ==
    IF s.nb = 1 THEN merge_hi_copy_a(s)
    ELSE IF s.bcount >= s.min_gallop THEN [s EXCEPT !.pairs = FALSE, !.min_gallop = @ + 1]
    ELSE s

merge_hi_pairs(s) ==
    IF lt(s.B[s.nb], s.A[s.na])
    THEN merge_hi_pairs_a(merge_hi_take_a([s EXCEPT !.acount = @ + 1, !.bcount = 0], 1))
    ELSE merge_hi_pairs_b(merge_hi_take_b([s EXCEPT !.bcount = @ + 1, !.acount = 0], 1))

merge_hi_gallop_b(s, k) ==
    LET t == merge_hi_take_b([s EXCEPT !.bcount = k], k)
    IN IF k > 0 /\ t.nb = 1 THEN merge_hi_copy_a(t)
       ELSE IF k > 0 /\ t.nb = 0 THEN merge_hi_succeed(t)
       ELSE IF t.na = 1 THEN merge_hi_succeed(merge_hi_take_a(t, 1))
       ELSE gallop_end(merge_hi_take_a(t, 1))

merge_hi_gallop_a(s, k) ==
    LET t == merge_hi_take_a([s EXCEPT !.acount = k], k)
    IN IF k > 0 /\ t.na = 0 THEN merge_hi_succeed(t)
       ELSE IF t.nb = 2 THEN merge_hi_copy_a(merge_hi_take_b(t, 1))
       ELSE merge_hi_gallop_b(merge_hi_take_b(t, 1),
                              t.nb - 1 - gallop("left", s.A[t.na],
                                                SubSeq(s.B, 1, t.nb - 1), t.nb - 2))

merge_hi_gallop(s) ==
    merge_hi_gallop_a(gallop_begin(s),
                      s.na - gallop("right", s.B[s.nb], SubSeq(s.A, 1, s.na), s.na - 1))

merge_hi(A, B, min_gallop) ==
    IF Len(A) = 1 THEN [out |-> B \o A, ms |-> min_gallop]
    ELSE IF Len(B) = 1 THEN [out |-> B \o A, ms |-> min_gallop]
    ELSE run([loop |-> "merge_hi", done |-> FALSE, pairs |-> TRUE, A |-> A, B |-> B,
              out |-> <<A[Len(A)]>>, na |-> Len(A) - 1, nb |-> Len(B),
              acount |-> 0, bcount |-> 0, min_gallop |-> min_gallop, ms |-> min_gallop])

(* The state of one sort: the list a, the stack of pending runs (base,     *)
(* len, power) and min_gallop.  merge_at merges the runs i and i+1 of the  *)
(* stack (counted from 0), which lie side by side in the list, skipping    *)
(* the items that are in place already.                                    *)

\* the merged items m.out go to the positions after the first start ones
merge_at_put(ms, start, m) ==
    [ms EXCEPT !.a = SubSeq(@, 1, start) \o m.out
                         \o SubSeq(@, start + Len(m.out) + 1, Len(@)),
               !.min_gallop = m.ms]

\* A is what is left of the first run, from position start of the list on,
\* and the first nb items of the second run runb are what is left of it
merge_at_rest(ms, start, A, runb, nb) ==
    IF nb = 0 THEN ms
    ELSE merge_at_put(ms, start,
                      IF Len(A) <= nb THEN merge_lo(A, SubSeq(runb, 1, nb), ms.min_gallop)
                      ELSE merge_hi(A, SubSeq(runb, 1, nb), ms.min_gallop))

\* the first k items of the first run runa, which starts at position base,
\* are in place
merge_at_runs(ms, base, runa, runb, k) ==
    IF k = Len(runa) THEN ms
    ELSE merge_at_rest(ms, base + k, SubSeq(runa, k + 1, Len(runa)), runb,
                       gallop("left", runa[Len(runa)], runb, Len(runb) - 1))

\* the two runs become one entry of the stack
merge_at_pop(ms, i, ra, rb) ==
    merge_at_runs([ms EXCEPT !.pending = SubSeq(@, 1, i)
                                            \o <<[ra EXCEPT !.len = ra.len + rb.len]>>
                                            \o SubSeq(@, i + 3, Len(@))],
                  ra.base,
                  SubSeq(ms.a, ra.base + 1, ra.base + ra.len),
                  SubSeq(ms.a, rb.base + 1, rb.base + rb.len),
                  gallop("right", ms.a[rb.base + 1],
                         SubSeq(ms.a, ra.base + 1, ra.base + ra.len), 0))

merge_at(ms, i) == merge_at_pop(ms, i, ms.pending[i + 1], ms.pending[i + 2])

\* merge_compute_minrun
RECURSIVE merge_compute_minrun(_, _)
merge_compute_minrun(n, r) ==
    IF n >= 64 THEN merge_compute_minrun(n \div 2, IF n % 2 = 1 THEN 1 ELSE r)
    ELSE n + r

\* powerloop(s1, n1, n2, n), with a and b the doubled midpoints
RECURSIVE powerloop(_, _, _, _)
powerloop(a, b, n, result) ==
    IF a >= n THEN powerloop(2 * (a - n), 2 * (b - n), n, result + 1)
    ELSE IF b >= n THEN result + 1
    ELSE powerloop(2 * a, 2 * b, n, result + 1)

\* found_new_run: merge while the run below the top has a larger power
RECURSIVE merge_by_power(_, _)
merge_by_power(ms, power) ==
    IF Len(ms.pending) > 1 /\ ms.pending[Len(ms.pending) - 1].power > power
    THEN merge_by_power(merge_at(ms, Len(ms.pending) - 2), power)
    ELSE [ms EXCEPT !.pending[Len(ms.pending)].power = power]

found_new_run(ms, n2) ==
    IF ms.pending = <<>> THEN ms
    ELSE LET top == ms.pending[Len(ms.pending)]
         IN merge_by_power(ms, powerloop(2 * top.base + top.len,
                                         2 * top.base + 2 * top.len + n2,
                                         Len(ms.a), 0))

RECURSIVE merge_force_collapse(_)
merge_force_collapse(ms) ==
    IF Len(ms.pending) <= 1 THEN ms
    ELSE merge_force_collapse(
             merge_at(ms, IF /\ Len(ms.pending) > 2
                             /\ ms.pending[Len(ms.pending) - 2].len
                                    < ms.pending[Len(ms.pending)].len
                          THEN Len(ms.pending) - 3
                          ELSE Len(ms.pending) - 2))

\* the natural run at position s.lo, n items made ascending by count_run, is
\* extended to force items by binarysort
extend_run(s, found, force) ==
    [s EXCEPT !.a = SubSeq(@, 1, s.lo)
                        \o binarysort(SubSeq(found.list, 1, force), found.n + 1)
                        \o SubSeq(@, s.lo + force + 1, Len(@))]

\* merge_collapse: merge while the three runs on top of the stack, or the
\* three below the top one, do not grow by more than their sum, or the top
\* run is not shorter than the one below it
RECURSIVE merge_collapse(_)
merge_collapse(ms) ==
    LET p == ms.pending
        n == Len(p) - 1
        i == IF n < 1 THEN -1
             ELSE IF \/ (n > 1 /\ p[n - 1].len <= p[n].len + p[n + 1].len)
                     \/ (n > 2 /\ p[n - 2].len <= p[n - 1].len + p[n].len)
             THEN (IF p[n - 1].len < p[n + 1].len THEN n - 2 ELSE n - 1)
             ELSE IF p[n].len <= p[n + 1].len THEN n - 1
             ELSE -1
    IN IF i < 0 THEN ms ELSE merge_collapse(merge_at(ms, i))

\* the run goes on the stack of pending runs: after found_new_run has merged
\* the runs before it that are due, or, up to CPython 3.10, before
\* merge_collapse merges the runs that are due, the new one among them
next_run(s, found) ==
    LET force == IF found.n >= s.minrun THEN found.n
                 ELSE Min(s.minrun, Len(s.a) - s.lo)
    IN IF s.kind = "collapse"
       THEN [merge_collapse([extend_run(s, found, force)
                                EXCEPT !.pending = Append(@, [base |-> s.lo, len |-> force,
                                                              power |-> 0])])
                EXCEPT !.lo = s.lo + force]
       ELSE [found_new_run(extend_run(s, found, force), force)
                EXCEPT !.pending = Append(@, [base |-> s.lo, len |-> force, power |-> 0]),
                       !.lo = s.lo + force]

\* the march over the list: the next run starts at position s.lo
list_sort_step(s) ==
    IF s.lo >= Len(s.a) THEN [merge_force_collapse(s) EXCEPT !.done = TRUE]
    ELSE next_run(s, count_run(SubSeq(s.a, s.lo + 1, Len(s.a)), s.kind))

step(s) ==
    CASE s.loop = "count_run" -> count_run_step(s)
      [] s.loop = "descending" -> descending_step(s)
      [] s.loop = "merge_lo" -> IF s.pairs THEN merge_lo_pairs(s) ELSE merge_lo_gallop(s)
      [] s.loop = "merge_hi" -> IF s.pairs THEN merge_hi_pairs(s) ELSE merge_hi_gallop(s)
      [] s.loop = "list_sort" -> list_sort_step(s)

sorted(values, kind) ==
    IF Len(values) < 2 THEN values
    ELSE run([loop |-> "list_sort", done |-> FALSE, kind |-> kind, a |-> values,
              pending |-> <<>>,
              min_gallop |-> MIN_GALLOP, lo |-> 0,
              minrun |-> merge_compute_minrun(Len(values), 0)]).a

\* Series.min() / Series.max(): over the non-null values, NaN when there is none
col_min(rows, col) ==
    LET V == {rows[i][col] : i \in DOMAIN rows} \ {NaN}
    IN IF V = {} THEN NaN ELSE CHOOSE m \in V : \A x \in V : m <= x

col_max(rows, col) ==
    LET V == {rows[i][col] : i \in DOMAIN rows} \ {NaN}
    IN IF V = {} THEN NaN ELSE CHOOSE m \in V : \A x \in V : m >= x

\* DataFrame.head(n)
head(rows, n) == SubSeq(rows, 1, Min(n, Len(rows)))

----------------------------------------------------------------------------
(* Sidebar filters, lines 40-61.  Boolean indexing df[mask] keeps the rows  *)
(* whose mask is True, in order, with their index labels.                  *)

\* mutant of isin: NaN in the selection matches no row
isin_skips_nan(rows, col, values) ==
    SelectSeq(rows, LAMBDA r : r[col] \in values \ {NaN})

\* mutant of isin: the matching rows' index labels are used as positions
isin_by_position(rows, col, values) ==
    LET hits == SelectSeq(rows, LAMBDA r : r[col] \in values /\ r.index < Len(rows))
    IN [k \in DOMAIN hits |-> rows[hits[k].index + 1]]

\* df[df[col].isin(values)]: isin matches NaN with NaN
isin(rows, col, values) == SelectSeq(rows, LAMBDA r : r[col] \in values)

\* line 43: the options offered by the passenger-count multiselect
\* (dropna leaves no NaN, and without NaN every list.sort ends in the one
\* ascending order)
passenger_options(d) == sorted(dropna(unique(d.rows, "passenger_count")), "strict")

\* line 58: the options offered by the vendor multiselect (no dropna: a NaN
\* stays among them, wherever sorted leaves it)
vendor_options(d, kind) == sorted(unique(d.rows, "VendorID"), kind)

\* lines 40-46
passenger_step(d, selection) ==
    IF Has("passenger_count", d)
    THEN [columns |-> d.columns, rows |-> isin(d.rows, "passenger_count", selection)]
    ELSE d

\* mutant of between: the longest trip in range is moved to the top
between_longest_first(rows, low, high) ==
    LET kept == SelectSeq(rows, LAMBDA r :
                    /\ ~IsNull(r.trip_distance) /\ ~IsNull(low) /\ ~IsNull(high)
                    /\ r.trip_distance >= low
                    /\ r.trip_distance <= high)
        longest == {i \in DOMAIN kept :
                       \A j \in DOMAIN kept : kept[j].trip_distance <= kept[i].trip_distance}
        first == CHOOSE i \in longest : \A j \in longest : i <= j
    IN IF kept = <<>> THEN kept
       ELSE <<kept[first]>> \o SubSeq(kept, 1, first - 1)
                            \o SubSeq(kept, first + 1, Len(kept))

\* line 52: both comparisons are False on NaN, on either side
between(rows, low, high) ==
    SelectSeq(rows, LAMBDA r :
        /\ ~IsNull(r.trip_distance) /\ ~IsNull(low) /\ ~IsNull(high)
        /\ r.trip_distance >= low
        /\ r.trip_distance <= high)

\* lines 49-52
distance_step(d, range) ==
    IF Has("trip_distance", d)
    THEN [columns |-> d.columns, rows |-> between(d.rows, range[1], range[2])]
    ELSE d

\* lines 55-61
vendor_step(d, selection) ==
    IF Has("VendorID", d)
    THEN [columns |-> d.columns, rows |-> isin(d.rows, "VendorID", selection)]
    ELSE d

\* the three filters in the script's order, with fixed widget values
filter_pipeline(d, passengers, range, vendors) ==
    vendor_step(distance_step(passenger_step(d, passengers), range), vendors)

----------------------------------------------------------------------------
(* Metric cards, lines 77-87.  A card is what st.metric was given: a       *)
(* number (the trip count as it is, the rounded metrics in hundredths),    *)
(* a non-finite float, the text "N/A", or nothing when the line never ran. *)
Number(v) == [kind |-> "number", value |-> v]

NotANumber == [kind |-> "nan", value |-> 0]

Infinity == [kind |-> "inf", value |-> 0]

MinusInfinity == [kind |-> "-inf", value |-> 0]

NotAvailable == [kind |-> "N/A", value |-> 0]

NoCard == [kind |-> "none", value |-> 0]

(* Floats, lines 78-85.  A binary64 float is sign * m * 2^exp, where m is   *)
(* a whole number of Precision bits; zero has m = 0.  A whole number is    *)
(* held as the sequence of its digits in base 4096 (12 bits each), lowest  *)
(* first and with no leading zero.  Every operation gives the float        *)
(* nearest the exact result, ties going to the even one.  (The values the  *)
(* cards take are far from overflow and from the subnormal floats.)        *)
Precision == 53

Zero == [sign |-> 1, m |-> <<>>, exp |-> 0]

\* a without its leading zeros
RECURSIVE trim(_)
trim(a) == IF a = <<>> \/ a[Len(a)] # 0 THEN a ELSE trim(SubSeq(a, 1, Len(a) - 1))

digit(a, i) == IF i \in DOMAIN a THEN a[i] ELSE 0

RECURSIVE from_int(_)
from_int(n) == IF n = 0 THEN <<>> ELSE <<n % 4096>> \o from_int(n \div 4096)

RECURSIVE to_int(_, _)
to_int(a, i) == IF i > Len(a) THEN 0 ELSE a[i] + 4096 * to_int(a, i + 1)

\* the number of bits of n > 0
RECURSIVE width(_)
width(n) == IF n = 0 THEN 0 ELSE 1 + width(n \div 2)

bit_length(a) == IF a = <<>> THEN 0 ELSE 12 * (Len(a) - 1) + width(a[Len(a)])

\* bit d of a, counted from 1 at the lowest
bit_at(a, d) == (digit(a, ((d - 1) \div 12) + 1) \div 2^((d - 1) % 12)) % 2

\* whether any of the lowest d bits of a is set
low_bits_set(a, d) ==
    \/ \E i \in 1..Min(d \div 12, Len(a)) : a[i] # 0
    \/ digit(a, (d \div 12) + 1) % 2^(d % 12) # 0

\* a * 2^d
shl(a, d) ==
    LET w == d \div 12
        s == d % 12
    IN trim([i \in 1..(Len(a) + w + 1) |->
                (digit(a, i - w) % 2^(12 - s)) * 2^s + digit(a, i - w - 1) \div 2^(12 - s)])

\* a \div 2^d
shr(a, d) ==
    LET w == d \div 12
        s == d % 12
    IN trim([i \in 1..(Len(a) - w) |->
                a[i + w] \div 2^s + (digit(a, i + w + 1) % 2^s) * 2^(12 - s)])

RECURSIVE nat_add_from(_, _, _, _)
nat_add_from(a, b, i, carry) ==
    IF i > Len(a) /\ i > Len(b) THEN (IF carry = 1 THEN <<1>> ELSE <<>>)
    ELSE LET s == digit(a, i) + digit(b, i) + carry
         IN <<s % 4096>> \o nat_add_from(a, b, i + 1, s \div 4096)

nat_add(a, b) == nat_add_from(a, b, 1, 0)

\* a - b for a >= b
RECURSIVE nat_sub_from(_, _, _, _)
nat_sub_from(a, b, i, borrow) ==
    IF i > Len(a) THEN <<>>
    ELSE LET s == a[i] - digit(b, i) - borrow
         IN <<s % 4096>> \o nat_sub_from(a, b, i + 1, IF s < 0 THEN 1 ELSE 0)

nat_sub(a, b) == trim(nat_sub_from(a, b, 1, 0))

RECURSIVE nat_less_from(_, _, _)
nat_less_from(a, b, i) ==
    IF i = 0 THEN FALSE
    ELSE IF a[i] # b[i] THEN a[i] < b[i]
    ELSE nat_less_from(a, b, i - 1)

\* a < b
nat_less(a, b) ==
    IF Len(a) # Len(b) THEN Len(a) < Len(b) ELSE nat_less_from(a, b, Len(a))

\* a * c for a small whole number c
RECURSIVE nat_times_from(_, _, _, _)
nat_times_from(a, c, i, carry) ==
    IF i > Len(a) THEN from_int(carry)
    ELSE LET s == a[i] * c + carry
         IN <<s % 4096>> \o nat_times_from(a, c, i + 1, s \div 4096)

nat_times(a, c) == trim(nat_times_from(a, c, 1, 0))

\* long division of the digits a[1..i] by a whole number n, 0 < n < 2^19,
\* highest digit first: the quotient's digits and the remainder
RECURSIVE long_division(_, _, _, _, _)
long_division(a, n, i, rem, q) ==
    IF i = 0 THEN [q |-> trim(q), rem |-> rem]
    ELSE LET r == 4096 * rem + a[i]
         IN long_division(a, n, i - 1, r % n, <<r \div n>> \o q)

(* the float nearest sign * N * 2^e; sticky tells that the exact value is  *)
(* a little above N * 2^e                                                  *)
fround(sign, N, e, sticky) ==
    LET d == bit_length(N) - Precision
        q == shr(N, d)
        up == nat_add(q, <<1>>)
    IN IF N = <<>> THEN Zero
       ELSE IF d <= 0 THEN [sign |-> sign, m |-> shl(N, 0 - d), exp |-> e + d]
       ELSE IF bit_at(N, d) = 1 /\ (sticky \/ low_bits_set(N, d - 1) \/ q[1] % 2 = 1)
       THEN IF bit_length(up) > Precision
            THEN [sign |-> sign, m |-> shr(up, 1), exp |-> e + d + 1]
            ELSE [sign |-> sign, m |-> up, exp |-> e + d]
       ELSE [sign |-> sign, m |-> q, exp |-> e + d]

\* float(n) of a whole number
ffrom_int(n) ==
    IF n < 0 THEN fround(-1, from_int(0 - n), 0, FALSE)
    ELSE fround(1, from_int(n), 0, FALSE)

\* x / n for a float x and a whole number n > 0 (a float itself)
fdiv(x, n) ==
    LET num == shl(x.m, 64)
        d == long_division(num, n, Len(num), 0, <<>>)
    IN fround(x.sign, d.q, x.exp - 64, d.rem # 0)

\* x + y
fadd(x, y) ==
    LET e == Min(x.exp, y.exp)
        A == shl(x.m, x.exp - e)
        B == shl(y.m, y.exp - e)
    IN IF x.m = <<>> THEN y
       ELSE IF y.m = <<>> THEN x
       ELSE IF x.exp - y.exp > 64 THEN x
       ELSE IF y.exp - x.exp > 64 THEN y
       ELSE IF x.sign = y.sign THEN fround(x.sign, nat_add(A, B), e, FALSE)
       ELSE IF nat_less(B, A) THEN fround(x.sign, nat_sub(A, B), e, FALSE)
       ELSE fround(y.sign, nat_sub(B, A), e, FALSE)

\* a * 2^e rounded to a whole number, halves going to the even one
rint(a, e) ==
    LET d == 0 - e
        whole == to_int(shr(a, d), 1)
    IN IF e >= 0 THEN to_int(shl(a, e), 1)
       ELSE IF bit_at(a, d) = 1 /\ (low_bits_set(a, d - 1) \/ whole % 2 = 1)
       THEN whole + 1
       ELSE whole

\* the ways round(x, 2) is computed: float.__round__ rounds the float's exact
\* value correctly; numpy.float64.__round__, the type pandas' sum() and mean()
\* return, multiplies by 100, rounds to an integer half-to-even, and divides
RoundingKinds == {"float", "float64"}

\* round(x, 2) of a float, in hundredths
round2(x, kind) ==
    IF kind = "float" THEN x.sign * rint(nat_times(x.m, 100), x.exp)
    ELSE LET y == fround(x.sign, nat_times(x.m, 100), x.exp, FALSE)
         IN y.sign * rint(y.m, y.exp)

(* numpy's sum of the floats a[lo..hi]: up to 7 are added one after the    *)
(* other, up to 128 in eight running sums that are then added in pairs,    *)
(* and more than that in two halves                                        *)
RECURSIVE sum_in_turn(_, _, _, _)
sum_in_turn(a, lo, hi, res) ==
    IF lo > hi THEN res ELSE sum_in_turn(a, lo + 1, hi, fadd(res, a[lo]))

RECURSIVE sum_in_eights(_, _, _, _)
sum_in_eights(a, i, hi, r) ==
    IF i + 7 > hi THEN r
    ELSE sum_in_eights(a, i + 8, hi, [j \in 1..8 |-> fadd(r[j], a[i + j - 1])])

RECURSIVE pairwise_sum(_, _, _)
pairwise_sum(a, lo, hi) ==
    LET n == hi - lo + 1
        r == sum_in_eights(a, lo + 8, hi, [j \in 1..8 |-> a[lo + j - 1]])
        half == (n \div 2) - ((n \div 2) % 8)
    IN IF n < 8 THEN sum_in_turn(a, lo, hi, Zero)
       ELSE IF n <= 128
       THEN sum_in_turn(a, hi - (n % 8) + 1, hi,
                        fadd(fadd(fadd(r[1], r[2]), fadd(r[3], r[4])),
                             fadd(fadd(r[5], r[6]), fadd(r[7], r[8]))))
       ELSE fadd(pairwise_sum(a, lo, lo + half - 1), pairwise_sum(a, lo + half, hi))

\* Series.sum(): NaN cells are skipped
RECURSIVE SumRange(_, _, _, _)
SumRange(rows, col, lo, hi) ==
    IF lo > hi THEN 0
    ELSE IF lo = hi THEN (IF IsNull(rows[lo][col]) THEN 0 ELSE rows[lo][col])
    ELSE LET mid == (lo + hi) \div 2
         IN SumRange(rows, col, lo, mid) + SumRange(rows, col, mid + 1, hi)

col_sum(rows, col) == SumRange(rows, col, 1, Len(rows))

\* Series.count(): the non-null cells
col_count(rows, col) == Len(SelectSeq(rows, LAMBDA r : ~IsNull(r[col])))

\* line 78
revenue_card(d) ==
    IF Has("fare_amount", d) THEN Number(100 * col_sum(d.rows, "fare_amount"))
    ELSE Number(0)

\* line 79, for a table that has the column: the mean of no value is NaN
distance_card(d, kind) ==
    LET n == col_count(d.rows, "trip_distance")
    IN IF n = 0 THEN NotANumber
       ELSE Number(round2(fdiv(ffrom_int(col_sum(d.rows, "trip_distance")), n), kind))

(* lines 83-84, one row: trip_distance / elapsed hours, as float division  *)
(* does it: x/0 is +inf or -inf by the sign of x, 0/0 is NaN, and a NaN    *)
(* or NaT operand gives NaN.                                               *)
row_speed(r) ==
    LET d == r.trip_distance
        p == r.tpep_pickup_datetime
        q == r.tpep_dropoff_datetime
    IN IF IsNull(d) \/ IsNull(p) \/ IsNull(q)
       THEN [kind |-> "nan", value |-> Zero]
       ELSE IF q - p = 0
       THEN [kind |-> IF d > 0 THEN "inf" ELSE IF d < 0 THEN "-inf" ELSE "nan",
             value |-> Zero]
       ELSE IF q - p > 0
       THEN [kind |-> "number", value |-> fdiv(ffrom_int(d), q - p)]
       ELSE [kind |-> "number", value |-> fdiv(ffrom_int(0 - d), p - q)]

(* lines 83-84: Series.mean() skips NaN and nothing else, so an infinite   *)
(* speed makes the mean infinite (NaN when both signs occur).  The sum is  *)
(* taken over the whole column with 0.0 in the place of each NaN, and      *)
(* divided by the number of speeds that are not NaN.                       *)
avg_speed(rows) ==
    LET speeds == [i \in DOMAIN rows |-> row_speed(rows[i])]
        kinds == {speeds[i].kind : i \in DOMAIN speeds}
        n == Len(SelectSeq(speeds, LAMBDA s : s.kind # "nan"))
        filled == [i \in DOMAIN speeds |->
                     IF speeds[i].kind = "number" THEN speeds[i].value ELSE Zero]
    IN IF n = 0 \/ {"inf", "-inf"} \subseteq kinds
       THEN [kind |-> "nan", value |-> Zero]
       ELSE IF "inf" \in kinds THEN [kind |-> "inf", value |-> Zero]
       ELSE IF "-inf" \in kinds THEN [kind |-> "-inf", value |-> Zero]
       ELSE [kind |-> "number", value |-> fdiv(pairwise_sum(filled, 1, Len(filled)), n)]

(* lines 82-87: a missing column raises KeyError inside the try and the    *)
(* card reads "N/A"; round() of a non-finite float returns it unchanged    *)
speed_card(d, kind) ==
    IF ~({"trip_distance", "tpep_dropoff_datetime", "tpep_pickup_datetime"}
            \subseteq d.columns)
    THEN NotAvailable
    ELSE LET s == avg_speed(d.rows)
         IN CASE s.kind = "number" -> Number(round2(s.value, kind))
              [] s.kind = "inf" -> Infinity
              [] s.kind = "-inf" -> MinusInfinity
              [] OTHER -> NotANumber

----------------------------------------------------------------------------
(* Charts and maps, lines 92-148 *)
PreviewRows == 10

MapCap == 20000

\* df[[lat, lon]].dropna().head(20000)
map_points(rows, lat, lon) ==
    head(SelectSeq([i \in DOMAIN rows |->
                      [index |-> rows[i].index, lat |-> rows[i][lat],
                       lon |-> rows[i][lon]]],
                   LAMBDA r : ~IsNull(r.lat) /\ ~IsNull(r.lon)),
         MapCap)

(* st.map(frame), lines 126 and 130, called without latitude= and          *)
(* longitude=: Streamlit takes the coordinates from columns named as below *)
(* and raises StreamlitAPIException when a frame that has rows has none;   *)
(* an empty frame draws an empty map.                                      *)
LatitudeNames == {"lat", "latitude", "LAT", "LATITUDE"}

LongitudeNames == {"lon", "longitude", "LON", "LONGITUDE"}

st_map_raises(points, lat, lon) ==
    points # <<>> /\ (lat \notin LatitudeNames \/ lon \notin LongitudeNames)

\* lines 96-121: the sections drawn between the cards and the maps
charts(d) ==
    {c \in {"trip_distance", "fare_amount", "pickup_hour", "pickup_day",
            "pickup_month"} : Has(c, d)}

\* lines 133-148: tip box plot, vendor pie, and the heatmap, which is unguarded
closing_charts(d) ==
    {c \in {"tip_amount", "VendorID"} : Has(c, d)} \cup {"heatmap"}

----------------------------------------------------------------------------
(* The script, section by section *)
EmptyTable == [columns |-> {}, rows |-> <<>>]

NoFile == [given |-> FALSE, columns |-> {}, rows |-> <<>>]

NoCards == [trips |-> NoCard, revenue |-> NoCard, distance |-> NoCard,
            speed |-> NoCard]

(* st.sidebar.slider(label, lo, hi, (lo, hi)), line 51.  With lo < hi it   *)
(* returns a pair low <= high inside [lo, hi].  With lo = hi, or with NaN  *)
(* bounds (a table with no distance), the source does not tell what the    *)
(* widget does: it may raise StreamlitAPIException, and when it returns it *)
(* returns the one pair there is.                                          *)
slider_may_raise(lo, hi) == IF IsNull(lo) \/ lo = hi THEN {TRUE, FALSE} ELSE {FALSE}

slider_values(stops, lo, hi) ==
    IF IsNull(lo) THEN {<<NaN, NaN>>}
    ELSE LET S == {v \in stops \cup {lo, hi} : lo <= v /\ v <= hi}
         IN {r \in S \X S : r[1] <= r[2]}

(* st.sidebar.multiselect(label, options, default=options), lines 41-45    *)
(* and 56-60, returns a subset of the options.  Each default must be found *)
(* among the options; options and default come from two calls of sorted,   *)
(* so a NaN of the one is not the NaN of the other, and the source does    *)
(* not tell whether the widget then raises StreamlitAPIException.          *)
multiselect_may_raise(options) ==
    IF NaN \in Range(options) THEN {TRUE, FALSE} ELSE {FALSE}

\* values a caller may stop the distance slider at, besides its two ends
SliderStops == {0, 5, 10}

\* lines 150-151: nothing was uploaded
NoUpload ==
    /\ pc = "start"
    /\ ~uploaded_file.given
    /\ rendered' = {"info"}
    /\ pc' = "done"
    /\ UNCHANGED <<uploaded_file, df, prev, passenger_filter, min_dist, max_dist, trip_dist,
                   vendor_filter, preview, cards, pickup_map, dropoff_map,
                   map_calls, error>>

\* lines 19-32
Ingest ==
    /\ pc = "start"
    /\ uploaded_file.given
    /\ df' = AddTimeFeatures(ConvertDates(read_csv(uploaded_file)))
    /\ prev' = df'
    /\ pc' = "passenger"
    /\ UNCHANGED <<uploaded_file, passenger_filter, min_dist, max_dist, trip_dist, vendor_filter,
                   preview, cards, rendered, pickup_map, dropoff_map,
                   map_calls, error>>

\* lines 40-46
PassengerFilter ==
    /\ pc = "passenger"
    /\ \E selection \in IF Has("passenger_count", df)
                        THEN SUBSET Range(passenger_options(df))
                        ELSE {passenger_filter} :
          /\ passenger_filter' = selection
          /\ df' = passenger_step(df, selection)
    /\ prev' = df
    /\ pc' = "distance"
    /\ UNCHANGED <<uploaded_file, min_dist, max_dist, trip_dist, vendor_filter, preview, cards,
                   rendered, pickup_map, dropoff_map,
                   map_calls, error>>

(* lines 49-52.  min_dist and max_dist are the bounds the slider is given. *)
(* A slider that raises ends the run.                                      *)
DistanceFilter ==
    /\ pc = "distance"
    /\ IF Has("trip_distance", df)
       THEN /\ min_dist' = col_min(df.rows, "trip_distance")
            /\ max_dist' = col_max(df.rows, "trip_distance")
            /\ \E raised \in slider_may_raise(min_dist', max_dist') :
                  IF raised
                  THEN /\ pc' = "crashed"
                       /\ error' = "StreamlitAPIException"
                       /\ UNCHANGED <<df, prev, trip_dist>>
                  ELSE /\ \E range \in slider_values(SliderStops, min_dist', max_dist') :
                             /\ trip_dist' = range
                             /\ df' = distance_step(df, range)
                       /\ prev' = df
                       /\ pc' = "vendor"
                       /\ error' = error
       ELSE /\ prev' = df
            /\ pc' = "vendor"
            /\ UNCHANGED <<df, min_dist, max_dist, trip_dist, error>>
    /\ UNCHANGED <<uploaded_file, passenger_filter, vendor_filter, preview, cards,
                   rendered, pickup_map, dropoff_map, map_calls>>

(* lines 55-61.  A multiselect that raises ends the run.                   *)
VendorFilter ==
    /\ pc = "vendor"
    /\ IF Has("VendorID", df)
       THEN \E kind \in ListSortKinds :
            \E raised \in multiselect_may_raise(vendor_options(df, kind)) :
               IF raised
               THEN /\ pc' = "crashed"
                    /\ error' = "StreamlitAPIException"
                    /\ UNCHANGED <<df, prev, vendor_filter>>
               ELSE /\ \E selection \in SUBSET Range(vendor_options(df, kind)) :
                          /\ vendor_filter' = selection
                          /\ df' = vendor_step(df, selection)
                    /\ prev' = df
                    /\ pc' = "preview"
                    /\ error' = error
       ELSE /\ prev' = df
            /\ pc' = "preview"
            /\ UNCHANGED <<df, vendor_filter, error>>
    /\ UNCHANGED <<uploaded_file, passenger_filter, min_dist, max_dist, trip_dist,
                   preview, cards, rendered, pickup_map, dropoff_map, map_calls>>

\* lines 63-69
Preview ==
    /\ pc = "preview"
    /\ preview' = head(df.rows, PreviewRows)
    /\ rendered' = rendered \cup {"success", "preview"}
    /\ pc' = "metrics"
    /\ UNCHANGED <<uploaded_file, df, prev, passenger_filter, min_dist, max_dist, trip_dist,
                   vendor_filter, cards, pickup_map, dropoff_map,
                   map_calls, error>>

(* lines 77-87.  Line 79 reads df["trip_distance"] with no presence check:  *)
(* without the column it raises KeyError after the first two cards were    *)
(* drawn, and the script run ends there.  Which round() runs depends on    *)
(* the scalar type the installed pandas returns.                           *)
Metrics ==
    /\ pc = "metrics"
    /\ IF Has("trip_distance", df)
       THEN /\ \E kind \in RoundingKinds :
                  cards' = [trips |-> Number(Len(df.rows)),
                            revenue |-> revenue_card(df),
                            distance |-> distance_card(df, kind),
                            speed |-> speed_card(df, kind)]
            /\ pc' = "charts"
            /\ error' = error
       ELSE /\ cards' = [trips |-> Number(Len(df.rows)),
                         revenue |-> revenue_card(df),
                         distance |-> NoCard,
                         speed |-> NoCard]
            /\ pc' = "crashed"
            /\ error' = "KeyError"
    /\ UNCHANGED <<uploaded_file, df, prev, passenger_filter, min_dist, max_dist, trip_dist,
                   vendor_filter, preview, rendered, pickup_map, dropoff_map,
                   map_calls>>

\* lines 92-121
Charts ==
    /\ pc = "charts"
    /\ rendered' = rendered \cup charts(df)
    /\ pc' = "maps"
    /\ UNCHANGED <<uploaded_file, df, prev, passenger_filter, min_dist, max_dist, trip_dist,
                   vendor_filter, preview, cards, pickup_map, dropoff_map,
                   map_calls, error>>

(* lines 123-130.  pickup_map and dropoff_map are the frames handed to     *)
(* st.map and map_calls the calls that were made; a map is among the       *)
(* rendered sections when its call returned.  A call that raises ends the  *)
(* run, so the dropoff map is reached only when the pickup call returned   *)
(* or was skipped.                                                         *)
Maps ==
    /\ pc = "maps"
    /\ LET pick == {"pickup_latitude", "pickup_longitude"} \subseteq df.columns
           pickup == map_points(df.rows, "pickup_latitude", "pickup_longitude")
           pick_raises ==
               pick /\ st_map_raises(pickup, "pickup_latitude", "pickup_longitude")
           drop == /\ ~pick_raises
                   /\ {"dropoff_latitude", "dropoff_longitude"} \subseteq df.columns
           dropoff == map_points(df.rows, "dropoff_latitude", "dropoff_longitude")
           drop_raises ==
               drop /\ st_map_raises(dropoff, "dropoff_latitude", "dropoff_longitude")
       IN /\ pickup_map' = IF pick THEN pickup ELSE pickup_map
          /\ dropoff_map' = IF drop THEN dropoff ELSE dropoff_map
          /\ map_calls' = map_calls \cup (IF pick THEN {"pickup"} ELSE {})
                                    \cup (IF drop THEN {"dropoff"} ELSE {})
          /\ rendered' = rendered
                           \cup (IF pick /\ ~pick_raises THEN {"pickup_map"} ELSE {})
                           \cup (IF drop /\ ~drop_raises THEN {"dropoff_map"} ELSE {})
          /\ IF pick_raises \/ drop_raises
             THEN pc' = "crashed" /\ error' = "StreamlitAPIException"
             ELSE pc' = "closing" /\ error' = error
    /\ UNCHANGED <<uploaded_file, df, prev, passenger_filter, min_dist, max_dist, trip_dist,
                   vendor_filter, preview, cards>>

\* lines 133-148
ClosingCharts ==
    /\ pc = "closing"
    /\ rendered' = rendered \cup closing_charts(df)
    /\ pc' = "done"
    /\ UNCHANGED <<uploaded_file, df, prev, passenger_filter, min_dist, max_dist, trip_dist,
                   vendor_filter, preview, cards, pickup_map, dropoff_map,
                   map_calls, error>>

Next ==
    \/ NoUpload
    \/ Ingest
    \/ PassengerFilter
    \/ DistanceFilter
    \/ VendorFilter
    \/ Preview
    \/ Metrics
    \/ Charts
    \/ Maps
    \/ ClosingCharts

----------------------------------------------------------------------------
(* Uploaded files.  Every CSV is a possible upload; each specification     *)
(* below draws its uploads from one family of them.                        *)
Stamp(m, d, h) == [month |-> m, day |-> d, hour |-> h]

\* one complete trip: 2015-01-01 10:00 to 11:00, 5 miles
BaseRow ==
    [tpep_pickup_datetime |-> Stamp(1, 1, 10),
     tpep_dropoff_datetime |-> Stamp(1, 1, 11),
     passenger_count |-> 1, trip_distance |-> 5, VendorID |-> 1,
     fare_amount |-> 12, tip_amount |-> 2,
     pickup_latitude |-> 40, pickup_longitude |-> -74,
     dropoff_latitude |-> 41, dropoff_longitude |-> -73]

\* the CSV with header cols whose i-th data row is table[i] cut to cols
csv(table, cols) ==
    [given |-> TRUE, columns |-> cols,
     rows |-> [i \in DOMAIN table |->
                 [c \in cols \cup {"index"} |->
                     IF c = "index" THEN i - 1 ELSE table[i][c]]]]

Tables(RowSet, n) == UNION {[1..k -> RowSet] : k \in 0..n}

InitWith(files) ==
    /\ uploaded_file \in files \cup {NoFile}
    /\ df = EmptyTable
    /\ prev = EmptyTable
    /\ passenger_filter = {}
    /\ min_dist = NaN
    /\ max_dist = NaN
    /\ trip_dist = <<NaN, NaN>>
    /\ vendor_filter = {}
    /\ preview = <<>>
    /\ cards = NoCards
    /\ rendered = {}
    /\ pickup_map = <<>>
    /\ dropoff_map = <<>>
    /\ map_calls = {}
    /\ pc = "start"
    /\ error = "none"

(* Filter uploads: up to MaxRows trips that differ in passenger_count,     *)
(* trip_distance and VendorID, each of which may be missing in a row.      *)
MaxRows == 3

FilterCells ==
    {<<1, 5, 1>>, <<2, 10, 2>>, <<1, 10, 2>>, <<NaN, 5, 1>>, <<1, NaN, 2>>,
     <<2, 5, NaN>>, <<2, 0, 1>>, <<NaN, NaN, NaN>>}

FilterRows ==
    {[BaseRow EXCEPT !.passenger_count = c[1], !.trip_distance = c[2],
                     !.VendorID = c[3]] : c \in FilterCells}

FilterFiles(n) ==
    {csv(t, cols) : t \in Tables(FilterRows, n),
                    cols \in {{"passenger_count", "trip_distance", "VendorID",
                               "fare_amount"},
                              {"trip_distance", "fare_amount"}}}

Init == InitWith(FilterFiles(MaxRows))

Spec == Init /\ [][Next]_vars

----------------------------------------------------------------------------
(* Properties of the filter steps.  prev is the table a step was given and *)
(* df the table it left; pc names the step that comes next.                *)

\* the table after ingestion, recomputed from the upload
Ingested == AddTimeFeatures(ConvertDates(read_csv(uploaded_file)))

\* every row of after is a row of before, and rows keep their relative order
\* (rows of one table are distinct: each carries its own index label)
IsOrderedSubtable(after, before) ==
    /\ \A i \in DOMAIN after : \E j \in DOMAIN before : before[j] = after[i]
    /\ \A i, k \in DOMAIN after :
          i < k => \E j, l \in DOMAIN before :
                      j < l /\ before[j] = after[i] /\ before[l] = after[k]

\* after holds exactly the rows of before whose col value is in selection
KeepsExactly(after, before, col, selection) ==
    /\ IsOrderedSubtable(after, before)
    /\ \A j \in DOMAIN before :
          (before[j][col] \in selection) <=> (\E i \in DOMAIN after : after[i] = before[j])

(* C1: the passenger-count filter with its full default selection (every   *)
(* option the widget offers) leaves the table as it was, rows with a null  *)
(* passenger_count included.                                               *)
C1_DefaultSelectionIsIdentity ==
    (/\ pc = "distance"
     /\ Has("passenger_count", prev)
     /\ passenger_filter = Range(passenger_options(prev)))
    => df = prev

(* C2: the trip-distance filter with low = the observed minimum and        *)
(* high = the observed maximum removes no row, rows with a null            *)
(* trip_distance included (stated for tables with at least one distance).  *)
C2_FullRangeIsIdentity ==
    (/\ pc = "vendor"
     /\ Has("trip_distance", prev)
     /\ ~IsNull(col_min(prev.rows, "trip_distance"))
     /\ trip_dist = <<col_min(prev.rows, "trip_distance"),
                      col_max(prev.rows, "trip_distance")>>)
    => df = prev

(* C6: for any selection S, the passenger_count (VendorID) filter outputs  *)
(* exactly the rows of its input whose value is in S, in their original    *)
(* relative order.                                                         *)
C6_MembershipFilterExact ==
    /\ (pc = "distance" /\ Has("passenger_count", prev))
          => KeepsExactly(df.rows, prev.rows, "passenger_count", passenger_filter)
    /\ (pc = "preview" /\ Has("VendorID", prev))
          => KeepsExactly(df.rows, prev.rows, "VendorID", vendor_filter)

\* passenger_count [1, 2, 1] filtered with {1}: the first and third rows remain
C6_Witness ==
    /\ pc = "distance"
    /\ Has("passenger_count", prev)
    /\ [i \in DOMAIN prev.rows |-> prev.rows[i].passenger_count] = <<1, 2, 1>>
    /\ passenger_filter = {1}
    /\ [i \in DOMAIN df.rows |-> df.rows[i].index] = <<0, 2>>

(* C7: after each of the three filter steps the table is an order-         *)
(* preserving subsequence of the table before the step, with the same      *)
(* columns and no more rows.                                               *)
C7_StepsOnlyRemoveRows ==
    pc \in {"distance", "vendor", "preview"} =>
        /\ IsOrderedSubtable(df.rows, prev.rows)
        /\ Len(df.rows) <= Len(prev.rows)
        /\ df.columns = prev.columns
        /\ \A i \in DOMAIN df.rows : DOMAIN df.rows[i] = df.columns \cup {"index"}

\* the distance step removed the middle row of three and kept the other two
C7_Witness ==
    /\ pc = "vendor"
    /\ Len(prev.rows) = 3
    /\ [i \in DOMAIN df.rows |-> df.rows[i].index] = <<0, 2>>
    /\ trip_dist[1] = trip_dist[2]

(* C10: the table the three filters leave is the pipeline applied once to  *)
(* the ingested table, and applying the pipeline to it again with the same *)
(* widget values changes nothing.                                          *)
C10_PipelineIdempotent ==
    pc = "preview" =>
        LET once == filter_pipeline(Ingested, passenger_filter, trip_dist,
                                    vendor_filter)
        IN /\ df = once
           /\ filter_pipeline(once, passenger_filter, trip_dist, vendor_filter) = once

\* all three filters ran and together removed some rows but not all
C10_Witness ==
    /\ pc = "preview"
    /\ {"passenger_count", "trip_distance", "VendorID"} \subseteq df.columns
    /\ Len(df.rows) >= 1
    /\ Len(df.rows) < Len(uploaded_file.rows)
    /\ passenger_filter # {}
    /\ vendor_filter # {}

----------------------------------------------------------------------------
(* Ingestion uploads: up to MaxIngestRows trips whose pickup text varies   *)
(* over valid instants and over text that names none (month 13,            *)
(* February 30, hour 24), in files with no dropoff column.                 *)
MaxIngestRows == 2

StampCells == {Stamp(m, d, h) : m \in {1, 2, 12, 13}, d \in {1, 30}, h \in {0, 23, 24}}

IngestRows == {[BaseRow EXCEPT !.tpep_pickup_datetime = s] : s \in StampCells}

IngestFiles(n) ==
    {csv(t, {"tpep_pickup_datetime", "trip_distance", "fare_amount"}) :
        t \in Tables(IngestRows, n)}

InitIngest == InitWith(IngestFiles(MaxIngestRows))

SpecIngest == InitIngest /\ [][Next]_vars

(* C8: after ingestion of a table with a pickup column, a row whose pickup *)
(* text parsed has pickup_hour in 0..23 (the hour the text names) and the  *)
(* weekday and month names of that instant; a row whose text did not parse *)
(* has a null timestamp and null pickup_hour, pickup_day and pickup_month; *)
(* ingestion keeps every row.                                              *)
C8_TimeFeatures ==
    (pc = "passenger" /\ "tpep_pickup_datetime" \in uploaded_file.columns) =>
        /\ Len(df.rows) = Len(uploaded_file.rows)
        /\ TimeFeatures \subseteq df.columns
        /\ \A i \in DOMAIN df.rows :
              LET raw == uploaded_file.rows[i].tpep_pickup_datetime
                  r == df.rows[i]
              IN /\ r.index = uploaded_file.rows[i].index
                 /\ IsNull(r.tpep_pickup_datetime) <=> ~ValidStamp(raw)
                 /\ IF ~IsNull(r.tpep_pickup_datetime)
                    THEN /\ r.pickup_hour \in 0..23
                         /\ r.pickup_hour = raw.hour
                         /\ r.pickup_day =
                              DayNames[((EpochWeekday + DaysBefore(raw.month)
                                         + raw.day - 1) % 7) + 1]
                         /\ r.pickup_month = MonthNames[raw.month]
                    ELSE /\ IsNull(r.pickup_hour)
                         /\ r.pickup_day = NoName
                         /\ r.pickup_month = NoName

\* a 23:00 pickup on Friday 30 January beside a pickup text with hour 24
C8_Witness ==
    /\ pc = "passenger"
    /\ Len(df.rows) = 2
    /\ uploaded_file.rows[1].tpep_pickup_datetime = Stamp(1, 30, 23)
    /\ df.rows[1].pickup_hour = 23
    /\ df.rows[1].pickup_day = "Friday"
    /\ df.rows[1].pickup_month = "January"
    /\ uploaded_file.rows[2].tpep_pickup_datetime = Stamp(12, 1, 24)
    /\ IsNull(df.rows[2].pickup_hour)

----------------------------------------------------------------------------
(* Metric uploads: up to MaxMetricRows trips of 0, 5 or 10 miles, picked   *)
(* up at 10:00 (or with an unparseable pickup) and dropped off between     *)
(* 09:00 and 12:00, or a 5-mile trip of 200 hours (0.025 mph, a decimal    *)
(* tie no float holds), or trips of 1 mile in 20 hours and 4 miles in 5    *)
(* hours (0.05 + 0.8 is not the float 0.85), in files with and without the *)
(* timestamp and distance columns.                                         *)
MaxMetricRows == 2

MetricRows ==
    {[BaseRow EXCEPT !.trip_distance = d, !.tpep_pickup_datetime = p,
                     !.tpep_dropoff_datetime = q] :
        d \in {0, 5, 10},
        p \in {Stamp(1, 1, 10), Stamp(1, 1, 24)},
        q \in {Stamp(1, 1, 9), Stamp(1, 1, 10), Stamp(1, 1, 11), Stamp(1, 1, 12)}}
    \cup {[BaseRow EXCEPT !.tpep_dropoff_datetime = Stamp(1, 9, 18)],
          [BaseRow EXCEPT !.trip_distance = 1, !.tpep_dropoff_datetime = Stamp(1, 2, 6)],
          [BaseRow EXCEPT !.trip_distance = 4, !.tpep_dropoff_datetime = Stamp(1, 1, 15)]}

MetricColumns ==
    {{"trip_distance", "tpep_pickup_datetime", "tpep_dropoff_datetime", "fare_amount"},
     {"trip_distance", "tpep_dropoff_datetime", "fare_amount"},
     {"trip_distance", "fare_amount"},
     {"tpep_pickup_datetime", "tpep_dropoff_datetime", "fare_amount"}}

MetricFiles(n) == {csv(t, cols) : t \in Tables(MetricRows, n), cols \in MetricColumns}

InitMetrics == InitWith(MetricFiles(MaxMetricRows))

SpecMetrics == InitMetrics /\ [][Next]_vars

\* elapsed hours of a converted row, NaN when either timestamp is NaT
Elapsed(r) ==
    IF IsNull(r.tpep_pickup_datetime) \/ IsNull(r.tpep_dropoff_datetime) THEN NaN
    ELSE r.tpep_dropoff_datetime - r.tpep_pickup_datetime

HasSpeedColumns(d) ==
    {"trip_distance", "tpep_pickup_datetime", "tpep_dropoff_datetime"}
        \subseteq d.columns

\* the rows the mean speed is to be taken over: strictly positive elapsed time
PositiveRows(rows) ==
    SelectSeq(rows, LAMBDA r :
        ~IsNull(r.trip_distance) /\ ~IsNull(Elapsed(r)) /\ Elapsed(r) > 0)

(* C3: the mean-speed card is the mean of distance / elapsed hours over    *)
(* the rows with strictly positive elapsed time; rows with zero or         *)
(* negative elapsed time do not enter it.                                  *)
C3_SpeedOverPositiveElapsed ==
    (pc = "charts" /\ HasSpeedColumns(df) /\ PositiveRows(df.rows) # <<>>) =>
        LET good == [columns |-> df.columns, rows |-> PositiveRows(df.rows)]
        IN \E kind \in RoundingKinds : cards.speed = speed_card(good, kind)

(* C5: when a timestamp column is absent, or every row of the filtered     *)
(* table has zero or negative elapsed time, the speed card reads "N/A"     *)
(* and the other three cards are drawn (stated for non-empty tables that   *)
(* have a trip_distance column, where all four cards are reached).         *)
C5_UnavailableSpeedIsNA ==
    (/\ pc = "charts"
     /\ df.rows # <<>>
     /\ \/ ~(date_cols \subseteq df.columns)
        \/ \A i \in DOMAIN df.rows :
              ~IsNull(Elapsed(df.rows[i])) /\ Elapsed(df.rows[i]) <= 0)
    => /\ cards.speed = NotAvailable
       /\ cards.trips.kind # "none"
       /\ cards.revenue.kind # "none"
       /\ cards.distance.kind # "none"

----------------------------------------------------------------------------
(* Column uploads: up to MaxColumnRows trips under every subset of the     *)
(* schema's columns as the header.                                         *)
MaxColumnRows == 1

ColumnRows ==
    {BaseRow,
     [BaseRow EXCEPT !.passenger_count = 2, !.trip_distance = 10, !.VendorID = 2,
                     !.tpep_dropoff_datetime = Stamp(1, 1, 12),
                     !.pickup_latitude = NaN]}

ColumnFiles(n) ==
    {csv(t, cols) : t \in Tables(ColumnRows, n),
                    cols \in (SUBSET SchemaColumns) \ {{}}}

InitColumns == InitWith(ColumnFiles(MaxColumnRows))

SpecColumns == InitColumns /\ [][Next]_vars

\* the sections that need no column or whose columns the table has
ExpectedSections(d) ==
    {"success", "preview", "heatmap"}
    \cup {c \in {"trip_distance", "fare_amount", "tip_amount", "VendorID"} : Has(c, d)}
    \cup (IF Has("tpep_pickup_datetime", d) THEN TimeFeatures ELSE {})
    \cup (IF {"pickup_latitude", "pickup_longitude"} \subseteq d.columns
          THEN {"pickup_map"} ELSE {})
    \cup (IF {"dropoff_latitude", "dropoff_longitude"} \subseteq d.columns
          THEN {"dropoff_map"} ELSE {})

(* C4: whichever optional column the upload lacks, the run raises no       *)
(* error, and it ends with every card drawn and with exactly the sections  *)
(* whose columns are present.                                              *)
C4_AbsentColumnsAreSkipped ==
    \A c \in SchemaColumns :
        (uploaded_file.given /\ c \notin uploaded_file.columns) =>
            /\ error = "none"
            /\ pc # "crashed"
            /\ pc = "done" =>
                  /\ rendered = ExpectedSections(df)
                  /\ \A k \in DOMAIN cards : cards[k].kind # "none"

----------------------------------------------------------------------------
(* Map uploads: tables of up to ExampleRows rows with the pickup           *)
(* coordinates, the dropoff coordinates or both.  The trips alternate      *)
(* between 5 and 10 miles, so that the distance slider of a table with     *)
(* rows has min < max.  With stride 0 every trip is complete; with stride  *)
(* s > 0 the trips lack a pickup latitude in every (s+1)-th row and a      *)
(* dropoff longitude in every (s+2)-th row.                                *)
ExampleRows == 50000

MaxStride == 1

MapRow(i, stride) ==
    [BaseRow EXCEPT
        !.trip_distance = IF i % 2 = 0 THEN 10 ELSE 5,
        !.pickup_latitude = IF stride > 0 /\ i % (stride + 1) = 0 THEN NaN ELSE 40,
        !.dropoff_longitude = IF stride > 0 /\ i % (stride + 2) = 0 THEN NaN ELSE -73]

PickupColumns == {"trip_distance", "pickup_latitude", "pickup_longitude"}

DropoffColumns == {"trip_distance", "dropoff_latitude", "dropoff_longitude"}

\* <<rows, stride, header>> of the uploads: short tables (the empty one
\* included) with every stride and header, ExampleRows-long tables with every
\* stride, tables of exactly MapCap and MapCap + 1 complete rows, and tables of
\* MapCap + 2 rows that lack one pickup latitude (row MapCap - 1) and one
\* dropoff longitude (row MapCap)
MapShapes ==
    ({0, 3, 4, 5} \X (0..MaxStride)
                 \X {PickupColumns, DropoffColumns, PickupColumns \cup DropoffColumns})
    \cup ({ExampleRows} \X (0..MaxStride) \X {PickupColumns})
    \cup ({MapCap, MapCap + 1} \X {0} \X {PickupColumns})
    \cup ({MapCap + 1} \X {0} \X {DropoffColumns})
    \cup ({MapCap + 2} \X {MapCap - 2} \X {PickupColumns, DropoffColumns})

MapFiles(shapes) ==
    {csv([i \in 1..shape[1] |-> MapRow(i, shape[2])], shape[3]) : shape \in shapes}

InitMap == InitWith(MapFiles(MapShapes))

SpecMap == InitMap /\ [][Next]_vars

\* points is the first min(MapCap, n) of the n rows with both coordinates
IsCappedPrefix(points, rows, lat, lon) ==
    LET full == SelectSeq(rows, LAMBDA r : ~IsNull(r[lat]) /\ ~IsNull(r[lon]))
    IN /\ Len(points) = Min(MapCap, Len(full))
       /\ Len(points) <= MapCap
       /\ \A i \in DOMAIN points :
             /\ points[i].index = full[i].index
             /\ points[i].lat = full[i][lat]
             /\ points[i].lon = full[i][lon]

\* the script has come to its map section, lines 124-130
MapSectionReached ==
    pc \in {"closing", "done"} \/ (pc = "crashed" /\ map_calls # {})

(* C9: for every filtered table with the two pickup (dropoff) coordinate   *)
(* columns, the pickup (dropoff) map is drawn, and the points passed to it *)
(* are the first min(20000, n) rows, in table order, of the n rows of the  *)
(* table whose two pickup (dropoff) coordinates are both non-null.         *)
C9_MapPointsCapped ==
    MapSectionReached =>
       /\ {"pickup_latitude", "pickup_longitude"} \subseteq df.columns =>
             /\ "pickup_map" \in rendered
             /\ IsCappedPrefix(pickup_map, df.rows,
                               "pickup_latitude", "pickup_longitude")
       /\ {"dropoff_latitude", "dropoff_longitude"} \subseteq df.columns =>
             /\ "dropoff_map" \in rendered
             /\ IsCappedPrefix(dropoff_map, df.rows,
                               "dropoff_latitude", "dropoff_longitude")

====
